---- MODULE Spec2Model ----
(***************************************************************************)
(* A model of the Deck class of src/mod.ts: a 52-card deck with            *)
(* construction (optionally shuffled), getCards, sort, and the static      *)
(* helpers stringify, parse, validate, getCardText, getSuitText and        *)
(* getCardDescription.                                                     *)
(*                                                                         *)
(* A JavaScript string is a sequence of one-character strings, so that     *)
(* the template literal of stringify and the split / length / index        *)
(* operations of parse act on characters.                                  *)
(***************************************************************************)
EXTENDS Integers, Sequences, FiniteSets, TLC

VARIABLES deck, returned, op, arg, res

vars == <<deck, returned, op, arg, res>>

(***************************************************************************)
(* Bounds of the model.                                                    *)
(***************************************************************************)
\* shuffle outcomes: cuts of the filled deck at 0..MaxCut, each also reversed
MaxCut == 2
\* getCards is called with every amount in -MaxNegative..MaxAmount
MaxAmount == 27
MaxNegative == 1

(***************************************************************************)
(* Static catalog data.                                                    *)
(***************************************************************************)
CARDS ==
  << <<"2">>, <<"3">>, <<"4">>, <<"5">>, <<"6">>, <<"7">>, <<"8">>, <<"9">>,
     <<"1", "0">>, <<"J">>, <<"Q">>, <<"K">>, <<"A">> >>

SUITS ==
  << [value |-> <<"S">>, color |-> "black", utf |-> "u2660"],
     [value |-> <<"H">>, color |-> "red",   utf |-> "u2665"],
     [value |-> <<"D">>, color |-> "red",   utf |-> "u2666"],
     [value |-> <<"C">>, color |-> "black", utf |-> "u2663"] >>

(***************************************************************************)
(* The constructor: the nested fill loops, then the optional shuffle.      *)
(***************************************************************************)
\* slip: the rank is the loop index itself
NewCardRankIsIndex(id, i, j) ==
  [id |-> id, value |-> CARDS[i + 1], rank |-> i, suit |-> SUITS[j + 1]]

NewCard(id, i, j) ==
  [id |-> id, value |-> CARDS[i + 1], rank |-> i + 1, suit |-> SUITS[j + 1]]

RECURSIVE FillLoop(_, _, _, _)
FillLoop(j, i, d, id) ==
  IF j >= Len(SUITS) THEN d
  ELSE IF i >= Len(CARDS) THEN FillLoop(j + 1, 0, d, id)
  ELSE FillLoop(j, i + 1, Append(d, NewCard(id, i, j)), id + 1)

Fill == FillLoop(0, 0, <<>>, 0)

\* the deck cut at c: the cards after the cut, then those before it
Cut(d, c) == SubSeq(d, c + 1, Len(d)) \o SubSeq(d, 1, c)

Reverse(d) == [k \in 1..Len(d) |-> d[Len(d) + 1 - k]]

\* lodash.shuffle returns some permutation of its argument; the model draws
\* it from the cuts at 0..MaxCut and their reversals
shuffle(d) ==
  {Cut(d, c) : c \in 0..MaxCut} \cup {Reverse(Cut(d, c)) : c \in 0..MaxCut}

Constructor(preShuffle) ==
  IF preShuffle THEN shuffle(Fill) ELSE {Fill}

(***************************************************************************)
(* sort: Array.prototype.sort with the comparator b.rank - a.rank.  The    *)
(* built-in sort is stable: an element is placed after every element the   *)
(* comparator does not order behind it.                                    *)
(***************************************************************************)
\* slip: a.rank - b.rank, which sorts lowest rank first
CompareAscending(a, b) == a.rank - b.rank

Compare(a, b) == b.rank - a.rank

RECURSIVE Insert(_, _)
Insert(s, x) ==
  IF s = <<>> THEN <<x>>
  ELSE IF Compare(Head(s), x) <= 0 THEN <<Head(s)>> \o Insert(Tail(s), x)
  ELSE <<x>> \o s

RECURSIVE sort(_)
sort(cards) ==
  IF cards = <<>> THEN <<>>
  ELSE Insert(sort(SubSeq(cards, 1, Len(cards) - 1)), cards[Len(cards)])

(***************************************************************************)
(* getCards.  amount is an integer.                                        *)
(***************************************************************************)
\* slip: <= where the code has <
CanDrawNonStrict(amount, d) == amount >= 1 /\ amount <= Len(d) - amount

\* slip: the amount is compared with the whole length
CanDrawWholeDeck(amount, d) == amount >= 1 /\ amount < Len(d)

CanDraw(amount, d) == amount >= 1 /\ amount < Len(d) - amount

\* slip: pop() where the code has shift()
RECURSIVE ShiftLoopPop(_, _, _, _)
ShiftLoopPop(i, amount, removedCards, d) ==
  IF i < amount
  THEN ShiftLoopPop(i + 1, amount, Append(removedCards, d[Len(d)]),
                    SubSeq(d, 1, Len(d) - 1))
  ELSE <<removedCards, d>>

\* slip: the card is read (this.deck[i]) and never removed
RECURSIVE ShiftLoopPeek(_, _, _, _)
ShiftLoopPeek(i, amount, removedCards, d) ==
  IF i < amount
  THEN ShiftLoopPeek(i + 1, amount, Append(removedCards, d[i + 1]), d)
  ELSE <<removedCards, d>>

\* the loop of shift() calls: <<removedCards, deck>> after amount shifts
RECURSIVE ShiftLoop(_, _, _, _)
ShiftLoop(i, amount, removedCards, d) ==
  IF i < amount
  THEN ShiftLoop(i + 1, amount, Append(removedCards, Head(d)), Tail(d))
  ELSE <<removedCards, d>>

getCards(amount, d) ==
  IF CanDraw(amount, d) THEN ShiftLoop(0, amount, <<>>, d) ELSE <<<<>>, d>>

(***************************************************************************)
(* The deck instance: deck is the private array, res the array the last    *)
(* call returned (the hand the caller holds), returned every card any      *)
(* getCards has returned so far.                                           *)
(***************************************************************************)
Init ==
  /\ \E preShuffle \in BOOLEAN : deck \in Constructor(preShuffle)
  /\ returned = <<>>
  /\ op = "new"
  /\ arg = 0
  /\ res = <<>>

GetCards(amount) ==
  LET r == getCards(amount, deck) IN
  /\ deck' = r[2]
  /\ res' = r[1]
  /\ returned' = returned \o r[1]
  /\ op' = "getCards"
  /\ arg' = amount

\* the caller sorts, in place, the hand it holds
Sort ==
  /\ res' = sort(res)
  /\ op' = "sort"
  /\ UNCHANGED <<deck, returned, arg>>

Next ==
  \/ \E amount \in (-MaxNegative)..MaxAmount : GetCards(amount)
  \/ Sort

Spec == Init /\ [][Next]_vars

(***************************************************************************)
(* JavaScript values the static helpers can produce besides strings,       *)
(* integers and cards.  NaN is the one Number that is no integer: the      *)
(* model writes it as an integer below every id the bounded inputs hold.   *)
(* undefined is written as a value of the type of the place it lands in:   *)
(* a one-element sequence that is no character string, or a record that    *)
(* is no suit.                                                             *)
(***************************************************************************)
NaN == -1000000

UndefinedString == <<"undefined">>

UndefinedSuit == [undefined |-> TRUE]

\* a call either returns a value or throws
Return(v) == [threw |-> FALSE, value |-> v]

Throw(e) == [threw |-> TRUE, error |-> e]

(***************************************************************************)
(* String primitives used by stringify and parse.                          *)
(***************************************************************************)
Digits == <<"0", "1", "2", "3", "4", "5", "6", "7", "8", "9">>

HexLetters == <<"a", "b", "c", "d", "e", "f">>

HexCapitals == <<"A", "B", "C", "D", "E", "F">>

WhiteSpace == {" "}

\* the value of character ch as a digit of the radix, -1 when it is none
DigitValue(ch, radix) ==
  IF \E k \in 1..10 : Digits[k] = ch
  THEN (CHOOSE k \in 1..10 : Digits[k] = ch) - 1
  ELSE IF radix = 16 /\ \E k \in 1..6 : HexLetters[k] = ch
  THEN (CHOOSE k \in 1..6 : HexLetters[k] = ch) + 9
  ELSE IF radix = 16 /\ \E k \in 1..6 : HexCapitals[k] = ch
  THEN (CHOOSE k \in 1..6 : HexCapitals[k] = ch) + 9
  ELSE -1

\* Number.prototype.toString of an integer: decimal, no leading zeros
RECURSIVE NatToString(_)
NatToString(n) ==
  IF n < 10 THEN <<Digits[n + 1]>>
  ELSE NatToString(n \div 10) \o <<Digits[(n % 10) + 1]>>

NumberToString(n) ==
  IF n = NaN THEN <<"N", "a", "N">>
  ELSE IF n < 0 THEN <<"-">> \o NatToString(-n)
  ELSE NatToString(n)

\* String.prototype.split on a one-character separator
RECURSIVE split(_, _)
split(str, sep) ==
  IF \E k \in DOMAIN str : str[k] = sep
  THEN LET k == CHOOSE m \in DOMAIN str :
                  str[m] = sep /\ \A n \in 1..(m - 1) : str[n] # sep
       IN <<SubSeq(str, 1, k - 1)>> \o split(SubSeq(str, k + 1, Len(str)), sep)
  ELSE <<str>>

RECURSIVE TrimStart(_)
TrimStart(str) ==
  IF str # <<>> /\ Head(str) \in WhiteSpace THEN TrimStart(Tail(str)) ELSE str

\* the value of the longest prefix of str made of digits of the radix, read
\* after acc; seen tells whether a digit was read
RECURSIVE ReadDigits(_, _, _, _)
ReadDigits(str, radix, acc, seen) ==
  IF str # <<>> /\ DigitValue(Head(str), radix) >= 0
  THEN ReadDigits(Tail(str), radix, acc * radix + DigitValue(Head(str), radix),
                  TRUE)
  ELSE IF seen THEN acc ELSE NaN

\* parseInt(string) with no radix: leading white space, an optional sign, an
\* optional 0x / 0X prefix, then the longest prefix of digits; NaN when empty
parseInt(string) ==
  LET S == TrimStart(string)
      negative == S # <<>> /\ Head(S) = "-"
      unsigned == IF S # <<>> /\ Head(S) \in {"+", "-"} THEN Tail(S) ELSE S
      hex == Len(unsigned) >= 2 /\ unsigned[1] = "0" /\ unsigned[2] \in {"x", "X"}
      number == IF hex THEN ReadDigits(Tail(Tail(unsigned)), 16, 0, FALSE)
                ELSE ReadDigits(unsigned, 10, 0, FALSE)
  IN IF number = NaN THEN NaN
     ELSE IF negative THEN -number
     ELSE number

\* str[k] with a 0-based index: undefined past the end
CharAt(str, k) == IF k + 1 \in DOMAIN str THEN <<str[k + 1]>> ELSE UndefinedString

\* Array.prototype.indexOf on the rank labels: 0-based, -1 when absent
indexOf(list, v) ==
  IF \E k \in DOMAIN list : list[k] = v
  THEN (CHOOSE k \in DOMAIN list : list[k] = v /\ \A m \in 1..(k - 1) : list[m] # v) - 1
  ELSE -1

\* Deck.SUITS.find((suit) => suit.value === suitValue)
FindSuit(suitValue) ==
  IF \E k \in DOMAIN SUITS : SUITS[k].value = suitValue
  THEN SUITS[CHOOSE k \in DOMAIN SUITS :
               SUITS[k].value = suitValue /\ \A m \in 1..(k - 1) : SUITS[m].value # suitValue]
  ELSE UndefinedSuit

(***************************************************************************)
(* stringify and parse                                                     *)
(***************************************************************************)
\* slip: the token is cut as if every value had one character
ParseCardNoTen(id, card) ==
  [id |-> parseInt(id), value |-> CharAt(card, 0),
   rank |-> indexOf(CARDS, CharAt(card, 0)) + 1,
   suit |-> FindSuit(CharAt(card, 1))]

StringifyCard(card) ==
  NumberToString(card.id) \o <<"#">> \o card.value \o card.suit.value

stringify(cards) == [k \in DOMAIN cards |-> StringifyCard(cards[k])]

\* the card built from the two parts of a token
ParseCard(id, card) ==
  LET value == IF Len(card) = 3 THEN <<"1", "0">> ELSE CharAt(card, 0)
      rank == indexOf(CARDS, value) + 1
      suitValue == IF Len(card) = 3 THEN CharAt(card, 2) ELSE CharAt(card, 1)
      suit == FindSuit(suitValue)
  IN [id |-> parseInt(id), value |-> value, rank |-> rank, suit |-> suit]

\* a token without '#' leaves card undefined, and card.length throws
parse(tokens) ==
  IF \E k \in DOMAIN tokens : Len(split(tokens[k], "#")) < 2
  THEN Throw("TypeError")
  ELSE Return([k \in DOMAIN tokens |->
                 ParseCard(split(tokens[k], "#")[1], split(tokens[k], "#")[2])])

(***************************************************************************)
(* The serialization helpers applied to bounded inputs: card sequences     *)
(* that are stringified and parsed back, and raw tokens that are parsed.   *)
(***************************************************************************)
\* ids of the single cards that are round-tripped
MaxId == 110
\* longest slice of a constructed deck that is round-tripped
MaxCards == 4
\* longest id part of a raw token
MaxIdLen == 3

\* every valid card with an id in 0..MaxId, alone
SingleCards ==
  {<<[id |-> id, value |-> CARDS[i], rank |-> i, suit |-> SUITS[j]]>> :
     id \in 0..MaxId, <<i, j>> \in (DOMAIN CARDS) \X (DOMAIN SUITS)}

\* the hands of up to MaxCards cards found in a constructed deck
DeckSlices ==
  UNION {{SubSeq(d, a[1], a[1] + a[2] - 1) :
            a \in {b \in (1..Len(d)) \X (0..MaxCards) : b[1] + b[2] - 1 <= Len(d)}} :
           d \in Constructor(TRUE) \cup Constructor(FALSE)}

IdChars == {"1", "0", "x", "-", " ", "f"}

RECURSIVE StringsUpTo(_, _)
StringsUpTo(chars, n) ==
  IF n = 0 THEN {<<>>}
  ELSE LET shorter == StringsUpTo(chars, n - 1)
       IN shorter \cup {Append(str, ch) : str \in shorter, ch \in chars}

CardParts == {<<"A", "S">>, <<"1", "0", "H">>, <<"Z", "X">>, <<"7">>, <<>>}

\* one token: an id part, '#', a card part; or a token without '#'
RawTokens ==
  {<<id \o <<"#">> \o card>> : id \in StringsUpTo(IdChars, MaxIdLen), card \in CardParts}
    \cup {<<id>> : id \in StringsUpTo(IdChars, 1)}

InitSerial ==
  /\ deck = <<>>
  /\ returned = <<>>
  /\ res = <<>>
  /\ \/ op = "cards" /\ arg \in SingleCards \cup DeckSlices
     \/ op = "tokens" /\ arg \in RawTokens

Stringify ==
  /\ op = "cards"
  /\ op' = "stringify"
  /\ res' = stringify(arg)
  /\ UNCHANGED <<deck, returned, arg>>

\* the tokens stringify returned are parsed back
ParseBack ==
  /\ op = "stringify"
  /\ op' = "roundtrip"
  /\ res' = parse(res)
  /\ UNCHANGED <<deck, returned, arg>>

Parse ==
  /\ op = "tokens"
  /\ op' = "parse"
  /\ res' = parse(arg)
  /\ UNCHANGED <<deck, returned, arg>>

NextSerial == Stringify \/ ParseBack \/ Parse

SpecSerial == InitSerial /\ [][NextSerial]_vars

(***************************************************************************)
(* sort applied to bounded card sequences.                                 *)
(***************************************************************************)
\* longest sequence that is sorted
MaxSortLen == 4

\* ranks 1, 3, 7, 13 of spades and ranks 3, 13 of hearts
SortPool == {c \in {Fill[k] : k \in DOMAIN Fill} : c.id \in {0, 2, 6, 12, 15, 25}}

InitSort ==
  /\ deck = <<>>
  /\ returned = <<>>
  /\ res = <<>>
  /\ op = "cards"
  /\ arg \in StringsUpTo(SortPool, MaxSortLen)

\* arg keeps the sequence as it was passed, res is the array sort returns
SortCards ==
  /\ op = "cards"
  /\ op' = "sorted"
  /\ res' = sort(arg)
  /\ UNCHANGED <<deck, returned, arg>>

NextSort == SortCards

SpecSort == InitSort /\ [][NextSort]_vars

(***************************************************************************)
(* validate, getCardText, getSuitText, getCardDescription.  An object is   *)
(* a function from its own keys to their values.  The display texts are    *)
(* never read by character: a text is kept as a sequence of fragments,     *)
(* "" as the empty one.                                                    *)
(***************************************************************************)
JSString(text) == [type |-> "string", text |-> text]

JSUndefined == [type |-> "undefined"]

JSFunction == [type |-> "function"]

JSNull == [type |-> "null"]

EmptyObject == <<>>

CARDS_TEXT ==
  { <<<<"2">>, "Two">>, <<<<"3">>, "Three">>, <<<<"4">>, "Four">>,
    <<<<"5">>, "Five">>, <<<<"6">>, "Six">>, <<<<"7">>, "Seven">>,
    <<<<"8">>, "Eight">>, <<<<"9">>, "Nine">>, <<<<"1", "0">>, "Ten">>,
    <<<<"J">>, "Jack">>, <<<<"Q">>, "Queen">>, <<<<"K">>, "King">>,
    <<<<"A">>, "Ace">> }

SUITS_TEXT ==
  { <<<<"S">>, "Spades">>, <<<<"H">>, "Hearts">>, <<<<"D">>, "Diamonds">>,
    <<<<"C">>, "Clubs">> }

\* keys every object inherits from Object.prototype (those the inputs use)
PrototypeKeys == { <<"c", "o", "n", "s", "t", "r", "u", "c", "t", "o", "r">> }

\* object[key] on a text table: the own entry, an inherited member, undefined
Get(table, key) ==
  IF \E e \in table : e[1] = key
  THEN JSString(<<(CHOOSE e \in table : e[1] = key)[2]>>)
  ELSE IF key \in PrototypeKeys THEN JSFunction
  ELSE JSUndefined

\* slip: the suit key is not looked for
ValidateNoSuit(playingCard) ==
  LET cardProps == DOMAIN playingCard
  IN IF "id" \in cardProps /\ "value" \in cardProps /\ "rank" \in cardProps
     THEN TRUE
     ELSE FALSE

validate(playingCard) ==
  LET cardProps == DOMAIN playingCard
  IN IF /\ "id" \in cardProps
        /\ "value" \in cardProps
        /\ "rank" \in cardProps
        /\ "suit" \in cardProps
     THEN TRUE
     ELSE FALSE

getCardText(playingCard) ==
  IF ~validate(playingCard) THEN Return(JSString(<<>>))
  ELSE Return(Get(CARDS_TEXT, playingCard.value))

getSuitText(playingCard) ==
  IF ~validate(playingCard) THEN Return(JSString(<<>>))
  ELSE IF playingCard.suit = JSNull THEN Throw("TypeError")
  ELSE IF "value" \in DOMAIN playingCard.suit
  THEN Return(Get(SUITS_TEXT, playingCard.suit.value))
  ELSE Return(JSUndefined)

\* the text a template literal puts in for a value
TemplateText(v) ==
  IF v.type = "string" THEN v.text
  ELSE IF v.type = "undefined" THEN <<"undefined">>
  ELSE <<"function () { [native code] }">>

getCardDescription(playingCard) ==
  IF ~validate(playingCard) THEN Return(JSString(<<>>))
  ELSE LET cardText == getCardText(playingCard)
           suitText == getSuitText(playingCard)
       IN IF suitText.threw THEN suitText
          ELSE Return(JSString(TemplateText(cardText.value) \o <<" of ">>
                                 \o TemplateText(suitText.value)))

CardKeys == {"id", "value", "rank", "suit", "extra"}

ValueInputs ==
  {<<"K">>, <<"1", "0">>, <<"Z">>} \cup PrototypeKeys

RankInputs == {12, 9, 99}

SuitInputs == {SUITS[2], [value |-> <<"X">>], EmptyObject, JSNull}

\* every object with some of the keys, its fields filled from the inputs
CardObjects ==
  {[k \in K |-> CASE k = "id" -> 1
                  [] k = "value" -> v
                  [] k = "rank" -> r
                  [] k = "suit" -> s
                  [] OTHER -> TRUE] :
     K \in SUBSET CardKeys, v \in ValueInputs, r \in RankInputs, s \in SuitInputs}

InitCard ==
  /\ deck = <<>>
  /\ returned = <<>>
  /\ res = <<>>
  /\ op = "object"
  /\ arg \in CardObjects

Validate ==
  /\ op = "object"
  /\ op' = "validate"
  /\ res' = Return(validate(arg))
  /\ UNCHANGED <<deck, returned, arg>>

GetCardText ==
  /\ op = "object"
  /\ op' = "getCardText"
  /\ res' = getCardText(arg)
  /\ UNCHANGED <<deck, returned, arg>>

GetSuitText ==
  /\ op = "object"
  /\ op' = "getSuitText"
  /\ res' = getSuitText(arg)
  /\ UNCHANGED <<deck, returned, arg>>

GetCardDescription ==
  /\ op = "object"
  /\ op' = "getCardDescription"
  /\ res' = getCardDescription(arg)
  /\ UNCHANGED <<deck, returned, arg>>

NextCard == Validate \/ GetCardText \/ GetSuitText \/ GetCardDescription

SpecCard == InitCard /\ [][NextCard]_vars

(***************************************************************************)
(* Properties of the deck instance (specification Spec).                   *)
(***************************************************************************)
Range(s) == {s[k] : k \in DOMAIN s}

NoRepeat(s) == \A k, m \in DOMAIN s : s[k] = s[m] => k = m

\* 1-based position of v in the rank labels, 0 when absent (indexOf + 1)
RankOf(v) ==
  IF \E k \in DOMAIN CARDS : CARDS[k] = v
  THEN CHOOSE k \in DOMAIN CARDS : CARDS[k] = v
  ELSE 0

\* the 52 cards, written out from the catalog
Cards52 ==
  {[id |-> 13 * j + i, value |-> CARDS[i + 1], rank |-> i + 1,
    suit |-> SUITS[j + 1]] : j \in 0..3, i \in 0..12}

\* C1: whatever preShuffle was, the constructed deck (no card drawn yet) holds
\* exactly the 52 cards {id = 13j + i, CARDS[i], i + 1, SUITS[j]}: 52 cards,
\* every (value, suit.value) pair once, ids exactly 0..51 without duplicate,
\* and rank = indexOf(value) + 1 for every card.
C1_Constructed52 ==
  returned = <<>> =>
    /\ Len(deck) = 52
    /\ Range(deck) = Cards52
    /\ {c.id : c \in Range(deck)} = 0..51
    /\ NoRepeat([k \in DOMAIN deck |-> deck[k].id])
    /\ NoRepeat([k \in DOMAIN deck |-> <<deck[k].value, deck[k].suit.value>>])
    /\ Cardinality({<<c.value, c.suit.value>> : c \in Range(deck)}) = 52
    /\ \A c \in Range(deck) : c.rank = RankOf(c.value)

\* a shuffled construction: all 52 cards, not in catalog order
C1_Witness ==
  /\ op = "new"
  /\ Len(deck) = 52
  /\ deck[1].id # 0
  /\ \E k \in DOMAIN deck : deck[k].value = <<"1", "0">> /\ deck[k].rank = 9

\* C2: a getCards(amount) whose amount fails (amount >= 1 and 2 * amount < n)
\* returns the empty sequence and leaves the remaining deck as it was.
C2_InvalidDrawNoOp ==
  [][(op' = "getCards" /\ ~(arg' >= 1 /\ 2 * arg' < Len(deck)))
       => (res' = <<>> /\ deck' = deck)]_vars

\* getCards(26) on the full deck returned nothing and left 52 cards
C2_Witness ==
  op = "getCards" /\ arg = 26 /\ res = <<>> /\ Len(deck) = 52

\* C3: a getCards(amount) with amount >= 1 and 2 * amount < n returns the first
\* amount cards in order and leaves the deck without them, order kept.
C3_DrawFromFront ==
  [][(op' = "getCards" /\ arg' >= 1 /\ 2 * arg' < Len(deck))
       => /\ res' = SubSeq(deck, 1, arg')
          /\ deck' = SubSeq(deck, arg' + 1, Len(deck))]_vars

\* getCards(25) on the full deck returned 25 cards and left 27
C3_Witness ==
  op = "getCards" /\ arg = 25 /\ Len(res) = 25 /\ Len(deck) = 27
  /\ Len(returned) = 25

\* C4: no card is duplicated or reintroduced: the remaining deck has no
\* repeated id, the cards returned so far and the remaining cards are disjoint
\* and together exactly the 52 constructed cards, and the remaining length
\* never increases from one step to the next.
C4_NoDuplication ==
  /\ [](/\ NoRepeat([k \in DOMAIN deck |-> deck[k].id])
        /\ Range(returned) \cap Range(deck) = {}
        /\ Range(returned) \cup Range(deck) = Cards52
        /\ Len(returned) + Len(deck) = 52)
  /\ [][Len(deck') <= Len(deck)]_vars

\* several draws, then a sort of the hand that changed its order
C4_Witness ==
  /\ op = "sort"
  /\ Len(returned) >= 30
  /\ Len(res) >= 2
  /\ res # SubSeq(returned, Len(returned) - Len(res) + 1, Len(returned))

\* C10: drawing never empties the deck: at least 2 cards always remain, a
\* successful draw leaves strictly more cards than it returns, and with 2
\* cards left every getCards returns the empty sequence.
C10_NeverEmptied ==
  /\ [](Len(deck) >= 2)
  /\ [][(op' = "getCards" /\ res' # <<>>) => Len(deck') > Len(res')]_vars
  /\ [][(op' = "getCards" /\ Len(deck) = 2)
          => (res' = <<>> /\ deck' = deck)]_vars

\* two cards are left and a draw was tried on them
C10_Witness ==
  Len(deck) = 2 /\ Len(returned) = 50 /\ op = "getCards" /\ res = <<>>

IsDecimalInteger(str) ==
  str # <<>> /\ \A k \in DOMAIN str : DigitValue(str[k], 10) >= 0

\* C7: parse of a token whose id part is not a decimal integer yields the
\* error InvalidId, and parse never returns a card whose id is NaN.
C7_InvalidId ==
  /\ (op = "parse" /\ Len(split(arg[1], "#")) >= 2
        /\ ~IsDecimalInteger(split(arg[1], "#")[1]))
       => res = Throw("InvalidId")
  /\ (op \in {"parse", "roundtrip"} /\ ~res.threw)
       => \A k \in DOMAIN res.value : res.value[k].id # NaN

(***************************************************************************)
(* Properties of sort (specification SpecSort).                            *)
(***************************************************************************)
Ranks(cards) == [k \in DOMAIN cards |-> cards[k].rank]

WithRank(cards, r) == LET HasRank(c) == c.rank = r IN SelectSeq(cards, HasRank)

Count(cards, c) == Cardinality({k \in DOMAIN cards : cards[k] = c})

\* C6: sort(cards) returns a permutation of the input ordered by
\* non-increasing rank, in which cards of equal rank keep their input order.
C6_SortDescendingStable ==
  op = "sorted" =>
    /\ Len(res) = Len(arg)
    /\ \A c \in SortPool : Count(res, c) = Count(arg, c)
    /\ \A k \in 1..(Len(res) - 1) : res[k].rank >= res[k + 1].rank
    /\ \A r \in 1..13 : WithRank(res, r) = WithRank(arg, r)

\* ranks [3, 1, 13, 7] were sorted to [13, 7, 3, 1]
C6_Witness ==
  op = "sorted" /\ Ranks(arg) = <<3, 1, 13, 7>> /\ Ranks(res) = <<13, 7, 3, 1>>

(***************************************************************************)
(* Properties of validate and getCardText (specification SpecCard).        *)
(***************************************************************************)
\* C8: validate(card) is true exactly when the four keys id, value, rank and
\* suit are all present, whatever they hold.
C8_ValidateShape ==
  op = "validate" =>
    /\ ~res.threw
    /\ res.value = TRUE <=> {"id", "value", "rank", "suit"} \subseteq DOMAIN arg
    /\ res.value = FALSE <=> \E k \in {"id", "value", "rank", "suit"} : k \notin DOMAIN arg

\* {id: 1, value: "Z", rank: 99, suit: {}} was found valid
C8_Witness ==
  /\ op = "validate"
  /\ DOMAIN arg = {"id", "value", "rank", "suit"}
  /\ arg.value = <<"Z">> /\ arg.rank = 99 /\ arg.suit = EmptyObject
  /\ res = Return(TRUE)

\* C9: getCardText(card) returns "" when validate fails, the display text of
\* card.value when it has one, and otherwise "" or the error UnknownValue: a
\* string or that error, never an absent value.
C9_CardTextNeverAbsent ==
  op = "getCardText" =>
    /\ ~validate(arg) => res = Return(JSString(<<>>))
    /\ (validate(arg) /\ \E e \in CARDS_TEXT : e[1] = arg.value)
         => res = Return(JSString(<<(CHOOSE e \in CARDS_TEXT : e[1] = arg.value)[2]>>))
    /\ (validate(arg) /\ ~\E e \in CARDS_TEXT : e[1] = arg.value)
         => res \in {Return(JSString(<<>>)), Throw("UnknownValue")}
    /\ \/ res = Throw("UnknownValue")
       \/ ~res.threw /\ res.value.type = "string"

====
